---- MODULE Spec2Model ----
(***************************************************************************)
(* Model of flytekit/annotated/base_task.py: the Task invocation           *)
(* dispatcher (Task.__call__), local execution (Task._local_execute) and   *)
(* the literal <-> native reconciliation of PythonTask.dispatch_execute.   *)
(*                                                                         *)
(* One Task instance (interface + body) is fixed at construction (Init).   *)
(* An invocation is a small call stack whose position is pc; the ambient   *)
(* FlyteContext is owned by an external collaborator (ContextChange).      *)
(***************************************************************************)
EXTENDS Integers, Sequences, FiniteSets, TLC

VARIABLES
    interface_outputs,   \* list(self.interface.outputs.keys()): declared output names, in order
    body,                \* the implementation bound to the abstract execute()
    ctx,                 \* FlyteContext.current_context()
    pc,                  \* position of the invocation in progress
    entry,               \* method the outside caller invoked
    args,                \* len(args) of __call__
    kwargs,              \* **kwargs of __call__
    call_ctx,            \* the local variable ctx of __call__ (line 153)
    input_literal_map,   \* argument of dispatch_execute
    native_inputs,       \* what execute received
    native_outputs,      \* what execute returned
    outputs_literal_map, \* outcome of dispatch_execute (line 120)
    result,              \* outcome of the outside call
    calls,               \* invocation counters of the current outside call
    registerable_entity,   \* self._registerable_entity (line 62)
    registration_settings, \* current_context().registration_settings (line 170)
    reg_pc,                \* position of each thread in get_registerable_entity
    reg_tk,                \* value of get_task_structure() a thread is about to store
    reg_ret,               \* what a thread's last get_registerable_entity returned
    reg_ord,               \* ordinal of a thread's current call
    reg_started,           \* number of get_registerable_entity calls so far
    reg_computed           \* ordinals of the calls that ran get_task_structure

taskvars == <<interface_outputs, body, ctx, pc, entry, args, kwargs, call_ctx,
              input_literal_map, native_inputs, native_outputs,
              outputs_literal_map, result, calls>>

regvars == <<registerable_entity, registration_settings, reg_pc, reg_tk,
             reg_ret, reg_ord, reg_started, reg_computed>>

vars == <<taskvars, regvars>>

---------------------------------------------------------------------------
(* Bounds *)

MaxOutputs == 3
MaxCompilationMode == 1
MaxArgs == 1
MaxThreads == 2
MaxVersion == 2
MaxRegCalls == 3

COMPILATION_MODE == 1

---------------------------------------------------------------------------
(* Values *)

Native(t, v) == [kind |-> "native", type |-> t, val |-> v, elems |-> <<>>]
NativeTuple(es) == [kind |-> "native", type |-> "tuple", val |-> 0, elems |-> es]
NoneValue == Native("NoneType", 0)
Literal(t, v) == [kind |-> "Literal", type |-> t, val |-> v]
Promise(var, val) == [kind |-> "Promise", var |-> var, val |-> val]
LiteralMap(literals) == [kind |-> "LiteralMap", literals |-> literals]
DynamicJobSpec == [kind |-> "DynamicJobSpec"]
VoidPromise == [kind |-> "VoidPromise"]
Exc(name) == [kind |-> "Exception", name |-> name]

IsTuple(v) == v.kind = "native" /\ v.type = "tuple"

Returned(v) == [status |-> "returned", value |-> v]
Raised(name) == [status |-> "raised", value |-> Exc(name)]
Pending == [status |-> "pending", value |-> NoneValue]

EmptyMap == [k \in {} |-> NoneValue]

---------------------------------------------------------------------------
(* The typed interface *)

NamePool == <<"a", "b", "c", "d", "e">>
OutputNames == {NamePool[i] : i \in 1..MaxOutputs}
InputNames == {"x", "y"}

\* python_interface.outputs[k] / python_interface.inputs[k]
TypeOf(k) == IF k \in {"a", "c", "e", "x", "y"} THEN "int" ELSE "str"

\* position of a name in lexical order
Rank(k) == CHOOSE i \in 1..Len(NamePool) : NamePool[i] = k

Interfaces ==
    {s \in UNION {[1..n -> OutputNames] : n \in 0..MaxOutputs} :
        \A i, j \in DOMAIN s : s[i] = s[j] => i = j}

---------------------------------------------------------------------------
(* The ambient context *)

NoState == [is_none |-> TRUE, mode |-> 0]
CompilationStates ==
    {NoState} \cup {[is_none |-> FALSE, mode |-> m] : m \in 0..MaxCompilationMode}
NoExecution == [is_none |-> TRUE, mode |-> "None", branch_eval_mode |-> "None"]
\* the branch-eval flag is set only under local workflow execution
ExecutionStates ==
    {NoExecution,
     [is_none |-> FALSE, mode |-> "TASK_EXECUTION", branch_eval_mode |-> "None"]}
    \cup
    [is_none : {FALSE},
     mode : {"LOCAL_WORKFLOW_EXECUTION"},
     branch_eval_mode : {"None", "BRANCH_ACTIVE", "BRANCH_SKIPPED"}]
Contexts == [compilation_state : CompilationStates, execution_state : ExecutionStates]
NoContext == [compilation_state |-> NoState, execution_state |-> NoExecution]

---------------------------------------------------------------------------
(* The executable body: implementations of the abstract execute. *)
(* Each is a function of the keyword arguments it receives.                *)

Bodies ==
    {[kind |-> k, len |-> 0] : k \in {"add", "none", "mistyped", "dj_spec", "raise"}}
    \cup {[kind |-> "tuple", len |-> n] : n \in 0..(MaxOutputs + 1)}
    \cup {[kind |-> "nested", len |-> n] : n \in 1..MaxOutputs}
    \cup {[kind |-> "literal_map", len |-> n] : n \in 0..MaxOutputs}

\* the i-th element a tuple-returning body produces: a value of the type
\* declared for the i-th output (an int beyond the declared outputs)
Element(names, i) ==
    Native(IF i <= Len(names) THEN TypeOf(names[i]) ELSE "int", i)

execute(b, names, kw) ==
    CASE b.kind = "add" ->
            IF \A k \in DOMAIN kw : kw[k].kind = "native" /\ kw[k].type = "int"
            THEN Returned(Native("int", kw["x"].val + kw["y"].val))
            ELSE Raised("TypeError")
      [] b.kind = "none" -> Returned(NoneValue)
      [] b.kind = "mistyped" -> Returned(Native("float", 9))
      [] b.kind = "tuple" ->
            Returned(NativeTuple([i \in 1..b.len |-> Element(names, i)]))
      [] b.kind = "nested" ->
            Returned(NativeTuple([i \in 1..b.len |->
                IF i = b.len THEN NativeTuple(<<Native("int", i)>>)
                ELSE Element(names, i)]))
      [] b.kind = "literal_map" ->
            Returned(LiteralMap([k \in {NamePool[i] : i \in 1..b.len} |->
                Literal(TypeOf(k), Rank(k))]))
      [] b.kind = "dj_spec" -> Returned(DynamicJobSpec)
      [] b.kind = "raise" -> Raised("BodyError")

---------------------------------------------------------------------------
(* The Value Translator and Promise helpers (external collaborators) *)

\* TypeEngine.to_literal(ctx, v, py_type, literal_type)
CanTranslate(v, py_type) == v.kind = "native" /\ v.type = py_type
to_literal(v) == Literal(v.type, v.val)

\* TypeEngine.literal_map_to_kwargs(ctx, lm, python_interface.inputs)
literal_map_to_kwargs(lm) ==
    IF \E k \in DOMAIN lm : lm[k].type # TypeOf(k)
    THEN Raised("TranslationError")
    ELSE Returned([k \in DOMAIN lm |-> Native(lm[k].type, lm[k].val)])

\* translate_inputs_to_literals(ctx, input_kwargs, interface, native_input_types):
\* a Promise carries its literal, a native constant is translated
translate_inputs_to_literals(kw) ==
    IF \E k \in DOMAIN kw : kw[k].kind = "native" /\ ~CanTranslate(kw[k], TypeOf(k))
    THEN Raised("TranslationError")
    ELSE Returned([k \in DOMAIN kw |->
            IF kw[k].kind = "Promise" THEN kw[k].val ELSE to_literal(kw[k])])

\* create_task_output(vals)
create_task_output(vals) ==
    IF Len(vals) = 1 THEN vals[1] ELSE [kind |-> "Promises", elems |-> vals]

\* create_and_link_node(ctx, entity, interface, timeout, retry_strategy, kwargs)
create_and_link_node(kw) == [kind |-> "Node", bindings |-> kw]

---------------------------------------------------------------------------
(* Task.__call__: the three-way dispatch, lines 147-164 *)

CompilationOn(c) ==
    ~c.compilation_state.is_none /\ c.compilation_state.mode = COMPILATION_MODE
LocalWorkflowOn(c) ==
    ~c.execution_state.is_none /\ c.execution_state.mode = "LOCAL_WORKFLOW_EXECUTION"
BranchSkipped(c) == c.execution_state.branch_eval_mode = "BRANCH_SKIPPED"

\* variant: the execution state is tested before the compilation state
call_path_local_first(nargs, c) ==
    IF nargs > 0 THEN "FlyteAssertion"
    ELSE IF LocalWorkflowOn(c)
    THEN IF BranchSkipped(c) THEN "skipped" ELSE "_local_execute"
    ELSE IF CompilationOn(c) THEN "compile"
    ELSE "execute"

\* variant: positional arguments are not rejected
call_path_accepts_args(nargs, c) ==
    IF CompilationOn(c) THEN "compile"
    ELSE IF LocalWorkflowOn(c)
    THEN IF BranchSkipped(c) THEN "skipped" ELSE "_local_execute"
    ELSE "execute"

\* variant: the branch-eval flag is not consulted
call_path_no_skip(nargs, c) ==
    IF nargs > 0 THEN "FlyteAssertion"
    ELSE IF CompilationOn(c) THEN "compile"
    ELSE IF LocalWorkflowOn(c) THEN "_local_execute"
    ELSE "execute"

\* variant: without a governing context the call still goes through
\* _local_execute
call_path_raw_translates(nargs, c) ==
    IF nargs > 0 THEN "FlyteAssertion"
    ELSE IF CompilationOn(c) THEN "compile"
    ELSE IF LocalWorkflowOn(c) /\ BranchSkipped(c) THEN "skipped"
    ELSE "_local_execute"

\* variant: local workflow execution runs the raw body
call_path_local_raw(nargs, c) ==
    IF nargs > 0 THEN "FlyteAssertion"
    ELSE IF CompilationOn(c) THEN "compile"
    ELSE IF LocalWorkflowOn(c) /\ BranchSkipped(c) THEN "skipped"
    ELSE "execute"

call_path(nargs, c) ==
    IF nargs > 0 THEN "FlyteAssertion"
    ELSE IF ~c.compilation_state.is_none /\ c.compilation_state.mode = COMPILATION_MODE
    THEN "compile"
    ELSE IF ~c.execution_state.is_none
            /\ c.execution_state.mode = "LOCAL_WORKFLOW_EXECUTION"
    THEN IF c.execution_state.branch_eval_mode = "BRANCH_SKIPPED"
         THEN "skipped"
         ELSE "_local_execute"
    ELSE "execute"

---------------------------------------------------------------------------
(* PythonTask.dispatch_execute: output reconciliation, lines 263-292 *)

\* lines 284-291: the loop over native_outputs_as_map.items(); elems[i] is
\* bound to names[i].  It stops at the first tuple or untranslatable value.
Bad(names, elems, i) == IsTuple(elems[i]) \/ ~CanTranslate(elems[i], TypeOf(names[i]))

\* variant: the tuple check is made only for a single declared output
translate_outputs_single_only(names, elems) ==
    LET isbad(i) == \/ Len(names) = 1 /\ IsTuple(elems[i])
                    \/ ~CanTranslate(elems[i], TypeOf(names[i]))
        bad == {i \in 1..Len(elems) : isbad(i)}
        first == CHOOSE i \in bad : \A j \in bad : i <= j
    IN  IF bad = {}
        THEN [status |-> "returned",
              value |-> LiteralMap([k \in {names[i] : i \in 1..Len(elems)} |->
                  to_literal(elems[CHOOSE i \in 1..Len(elems) : names[i] = k])]),
              translated |-> Len(elems)]
        ELSE [status |-> "raised",
              value |-> Exc(IF Len(names) = 1 /\ IsTuple(elems[first])
                            THEN "AssertionError_tuple"
                            ELSE "TranslationError"),
              translated |-> first - 1]

translate_outputs(names, elems) ==
    LET bad == {i \in 1..Len(elems) : Bad(names, elems, i)}
        first == CHOOSE i \in bad : \A j \in bad : i <= j
    IN  IF bad = {}
        THEN [status |-> "returned",
              value |-> LiteralMap([k \in {names[i] : i \in 1..Len(elems)} |->
                  to_literal(elems[CHOOSE i \in 1..Len(elems) : names[i] = k])]),
              translated |-> Len(elems)]
        ELSE [status |-> "raised",
              value |-> Exc(IF IsTuple(elems[first]) THEN "AssertionError_tuple"
                            ELSE "TranslationError"),
              translated |-> first - 1]

Range(seq) == {seq[i] : i \in DOMAIN seq}

\* the names in lexical order
SortedNames(names) ==
    [i \in 1..Len(names) |->
        CHOOSE k \in Range(names) :
            Cardinality({j \in Range(names) : Rank(j) < Rank(k)}) = i - 1]

\* variant: no branch for zero declared outputs
reconcile_no_zero(names, v) ==
    IF v.kind \in {"LiteralMap", "DynamicJobSpec"}
    THEN [status |-> "returned", value |-> v, translated |-> 0]
    ELSE IF Len(names) = 1
    THEN translate_outputs(names, <<v>>)
    ELSE IF ~IsTuple(v)
    THEN [status |-> "raised", value |-> Exc("TypeError"), translated |-> 0]
    ELSE IF Len(v.elems) > Len(names)
    THEN [status |-> "raised", value |-> Exc("IndexError"), translated |-> 0]
    ELSE translate_outputs(names, v.elems)

\* variant: a one-element tuple is unwrapped for a single declared output
reconcile_unwraps_single(names, v) ==
    IF v.kind \in {"LiteralMap", "DynamicJobSpec"}
    THEN [status |-> "returned", value |-> v, translated |-> 0]
    ELSE IF Len(names) = 1
    THEN IF IsTuple(v) /\ Len(v.elems) = 1
         THEN translate_outputs(names, v.elems)
         ELSE translate_outputs(names, <<v>>)
    ELSE IF Len(names) = 0
    THEN [status |-> "returned", value |-> VoidPromise, translated |-> 0]
    ELSE IF ~IsTuple(v)
    THEN [status |-> "raised", value |-> Exc("TypeError"), translated |-> 0]
    ELSE IF Len(v.elems) > Len(names)
    THEN [status |-> "raised", value |-> Exc("IndexError"), translated |-> 0]
    ELSE translate_outputs(names, v.elems)

\* variant: the output names are enumerated in lexical order
reconcile_sorted(names, v) ==
    IF v.kind \in {"LiteralMap", "DynamicJobSpec"}
    THEN [status |-> "returned", value |-> v, translated |-> 0]
    ELSE IF Len(names) = 1
    THEN translate_outputs(names, <<v>>)
    ELSE IF Len(names) = 0
    THEN [status |-> "returned", value |-> VoidPromise, translated |-> 0]
    ELSE IF ~IsTuple(v)
    THEN [status |-> "raised", value |-> Exc("TypeError"), translated |-> 0]
    ELSE IF Len(v.elems) > Len(names)
    THEN [status |-> "raised", value |-> Exc("IndexError"), translated |-> 0]
    ELSE translate_outputs(SortedNames(names), v.elems)

\* variant: the zero-output test comes before the short circuit
reconcile_zero_first(names, v) ==
    IF Len(names) = 0
    THEN [status |-> "returned", value |-> VoidPromise, translated |-> 0]
    ELSE IF v.kind \in {"LiteralMap", "DynamicJobSpec"}
    THEN [status |-> "returned", value |-> v, translated |-> 0]
    ELSE IF Len(names) = 1
    THEN translate_outputs(names, <<v>>)
    ELSE IF ~IsTuple(v)
    THEN [status |-> "raised", value |-> Exc("TypeError"), translated |-> 0]
    ELSE IF Len(v.elems) > Len(names)
    THEN [status |-> "raised", value |-> Exc("IndexError"), translated |-> 0]
    ELSE translate_outputs(names, v.elems)

reconcile(names, v) ==
    IF v.kind \in {"LiteralMap", "DynamicJobSpec"}
    THEN [status |-> "returned", value |-> v, translated |-> 0]
    ELSE IF Len(names) = 1
    THEN translate_outputs(names, <<v>>)
    ELSE IF Len(names) = 0
    THEN [status |-> "returned", value |-> VoidPromise, translated |-> 0]
    ELSE IF ~IsTuple(v)
    THEN [status |-> "raised", value |-> Exc("TypeError"), translated |-> 0]
    ELSE IF Len(v.elems) > Len(names)
    THEN [status |-> "raised", value |-> Exc("IndexError"), translated |-> 0]
    ELSE translate_outputs(names, v.elems)

---------------------------------------------------------------------------
(* Task._local_execute: re-wrapping of the outputs, lines 121-134 *)

\* variant: the Promises are built in the lexical order of the names
wrap_outputs_sorted(names, olm) ==
    IF olm.kind = "VoidPromise" THEN Returned(olm)
    ELSE IF olm.kind # "LiteralMap" THEN Raised("AttributeError")
    ELSE IF Len(names) # Cardinality(DOMAIN olm.literals)
    THEN Raised("AssertionError_length")
    ELSE IF \E i \in 1..Len(names) : names[i] \notin DOMAIN olm.literals
    THEN Raised("KeyError")
    ELSE Returned(create_task_output(
            [i \in 1..Len(names) |->
                Promise(SortedNames(names)[i], olm.literals[SortedNames(names)[i]])]))

wrap_outputs(names, olm) ==
    IF olm.kind = "VoidPromise" THEN Returned(olm)
    ELSE IF olm.kind # "LiteralMap" THEN Raised("AttributeError")
    ELSE IF Len(names) # Cardinality(DOMAIN olm.literals)
    THEN Raised("AssertionError_length")
    ELSE IF \E i \in 1..Len(names) : names[i] \notin DOMAIN olm.literals
    THEN Raised("KeyError")
    ELSE Returned(create_task_output(
            [i \in 1..Len(names) |-> Promise(names[i], olm.literals[names[i]])]))

---------------------------------------------------------------------------
(* State machine *)

NoCalls ==
    [compile |-> 0, local_execute |-> 0, translate_inputs_to_literals |-> 0,
     dispatch_execute |-> 0, literal_map_to_kwargs |-> 0, execute |-> 0,
     to_literal |-> 0]

\* keyword arguments of an invocation: native constants, Promises of
\* upstream tasks, or a mix; the last has a constant of the wrong type
P(v) == Promise("o0", Literal("int", v))
KwargsChoices ==
    {[x |-> Native("int", 2), y |-> Native("int", 3)],
     [x |-> P(2), y |-> P(3)],
     [x |-> P(2), y |-> Native("int", 3)],
     [x |-> Native("str", 2), y |-> Native("int", 3)]}

\* literal maps handed to dispatch_execute at runtime
LiteralMapChoices ==
    {[x |-> Literal("int", 2), y |-> Literal("int", 3)],
     [x |-> Literal("str", 2), y |-> Literal("int", 3)]}

\* contexts the collaborator installs while the body runs: one for each
\* path of __call__
BodyContexts ==
    {NoContext,
     [compilation_state |-> [is_none |-> FALSE, mode |-> COMPILATION_MODE],
      execution_state |-> NoExecution]}
    \cup {[compilation_state |-> NoState,
           execution_state |-> [is_none |-> FALSE,
                                mode |-> "LOCAL_WORKFLOW_EXECUTION",
                                branch_eval_mode |-> b]] :
            b \in {"BRANCH_ACTIVE", "BRANCH_SKIPPED"}}

\* Registration collaborator
Threads == 1..MaxThreads
None == [kind |-> "None"]
RegistrationSettings ==
    {[project |-> "project", domain |-> "domain", version |-> v] :
        v \in 1..MaxVersion}

\* Task.get_task_structure, lines 169-183
get_task_structure(settings) ==
    [kind |-> "SdkTask",
     type |-> "python-task",
     interface |-> interface_outputs,
     project |-> settings.project,
     domain |-> settings.domain,
     name |-> "task",
     version |-> settings.version]

Init ==
    /\ interface_outputs \in Interfaces
    /\ body \in Bodies
    /\ ctx = NoContext
    /\ pc = "idle"
    /\ entry = "none"
    /\ args = 0
    /\ kwargs = EmptyMap
    /\ call_ctx = NoContext
    /\ input_literal_map = EmptyMap
    /\ native_inputs = EmptyMap
    /\ native_outputs = Pending
    /\ outputs_literal_map = Pending
    /\ result = Pending
    /\ calls = NoCalls
    /\ registerable_entity = None
    /\ registration_settings =
          [project |-> "project", domain |-> "domain", version |-> 1]
    /\ reg_pc = [t \in Threads |-> "idle"]
    /\ reg_tk = [t \in Threads |-> None]
    /\ reg_ret = [t \in Threads |-> None]
    /\ reg_ord = [t \in Threads |-> 0]
    /\ reg_started = 0
    /\ reg_computed = {}

\* the context-management collaborator pushes or pops a context, between
\* invocations or from inside the running body
ContextChange(c) ==
    /\ \/ pc = "idle"
       \/ pc = "execute" /\ c \in BodyContexts
    /\ c # ctx
    /\ ctx' = c
    /\ UNCHANGED <<interface_outputs, body, pc, entry, args, kwargs, call_ctx,
                   input_literal_map, native_inputs, native_outputs,
                   outputs_literal_map, result, calls>>
    /\ UNCHANGED regvars

\* Task.__call__, lines 136-164
Call(n, kw) ==
    /\ pc = "idle"
    /\ entry' = "__call__"
    /\ args' = n
    /\ kwargs' = kw
    /\ call_ctx' = IF n > 0 THEN call_ctx ELSE ctx
    /\ LET path == call_path(n, ctx)
       IN  CASE path = "FlyteAssertion" ->
                    /\ result' = Raised("FlyteAssertion")
                    /\ pc' = "done"
                    /\ UNCHANGED <<calls, native_inputs>>
             [] path = "compile" ->
                    /\ calls' = [calls EXCEPT !.compile = @ + 1]
                    /\ result' = Returned(create_and_link_node(kw))
                    /\ pc' = "done"
                    /\ UNCHANGED native_inputs
             [] path = "skipped" ->
                    /\ result' = Returned(NoneValue)
                    /\ pc' = "done"
                    /\ UNCHANGED <<calls, native_inputs>>
             [] path = "_local_execute" ->
                    /\ calls' = [calls EXCEPT !.local_execute = @ + 1]
                    /\ pc' = "_local_execute"
                    /\ UNCHANGED <<result, native_inputs>>
             [] path = "execute" ->
                    /\ native_inputs' = kw
                    /\ pc' = "execute"
                    /\ UNCHANGED <<result, calls>>
    /\ UNCHANGED <<interface_outputs, body, ctx, input_literal_map,
                   native_outputs, outputs_literal_map>>
    /\ UNCHANGED regvars

\* Task._local_execute, lines 115-120: resolve the arguments to a literal map
LocalExecute ==
    /\ pc = "_local_execute"
    /\ calls' = [calls EXCEPT !.translate_inputs_to_literals = @ + 1]
    /\ LET r == translate_inputs_to_literals(kwargs)
       IN  IF r.status = "raised"
           THEN /\ result' = r
                /\ pc' = "done"
                /\ UNCHANGED input_literal_map
           ELSE /\ input_literal_map' = r.value
                /\ pc' = "dispatch_execute"
                /\ UNCHANGED result
    /\ UNCHANGED <<interface_outputs, body, ctx, entry, args, kwargs, call_ctx,
                   native_inputs, native_outputs, outputs_literal_map>>
    /\ UNCHANGED regvars

\* PythonTask.dispatch_execute invoked directly at runtime
DispatchCall(lm) ==
    /\ pc = "idle"
    /\ entry' = "dispatch_execute"
    /\ input_literal_map' = lm
    /\ call_ctx' = ctx
    /\ pc' = "dispatch_execute"
    /\ UNCHANGED <<interface_outputs, body, ctx, args, kwargs, native_inputs,
                   native_outputs, outputs_literal_map, result, calls>>
    /\ UNCHANGED regvars

\* variant: a failed input translation is ignored and the body gets the
\* literals
DispatchExecute_ignores_failure ==
    /\ pc = "dispatch_execute"
    /\ calls' = [calls EXCEPT !.dispatch_execute = @ + 1,
                              !.literal_map_to_kwargs = @ + 1]
    /\ LET r == literal_map_to_kwargs(input_literal_map)
       IN  native_inputs' = IF r.status = "raised" THEN input_literal_map ELSE r.value
    /\ pc' = "execute"
    /\ UNCHANGED <<interface_outputs, body, ctx, entry, args, kwargs, call_ctx,
                   input_literal_map, native_outputs, result, outputs_literal_map>>
    /\ UNCHANGED regvars

\* PythonTask.dispatch_execute, lines 249-255: literals to native inputs
DispatchExecute ==
    /\ pc = "dispatch_execute"
    /\ calls' = [calls EXCEPT !.dispatch_execute = @ + 1,
                              !.literal_map_to_kwargs = @ + 1]
    /\ LET r == literal_map_to_kwargs(input_literal_map)
       IN  IF r.status = "raised"
           THEN /\ outputs_literal_map' = r
                /\ result' = r
                /\ pc' = "done"
                /\ UNCHANGED native_inputs
           ELSE /\ native_inputs' = r.value
                /\ pc' = "execute"
                /\ UNCHANGED <<result, outputs_literal_map>>
    /\ UNCHANGED <<interface_outputs, body, ctx, entry, args, kwargs, call_ctx,
                   input_literal_map, native_outputs>>
    /\ UNCHANGED regvars

\* variant: an exception of the body is logged and not raised again
Execute_suppresses ==
    /\ pc = "execute"
    /\ calls' = [calls EXCEPT !.execute = @ + 1]
    /\ LET r == execute(body, interface_outputs, native_inputs)
       IN  /\ native_outputs' = r
           /\ IF calls.dispatch_execute = 0
              THEN /\ result' = r
                   /\ pc' = "done"
              ELSE /\ pc' = "reconcile"
                   /\ UNCHANGED result
    /\ UNCHANGED <<interface_outputs, body, ctx, entry, args, kwargs, call_ctx,
                   input_literal_map, native_inputs, outputs_literal_map>>
    /\ UNCHANGED regvars

\* variant: after the body the context is read again to choose how to go on
Execute_rereads ==
    /\ pc = "execute"
    /\ calls' = [calls EXCEPT !.execute = @ + 1]
    /\ LET r == execute(body, interface_outputs, native_inputs)
           raw == IF entry = "__call__"
                  THEN ~LocalWorkflowOn(ctx)
                  ELSE calls.dispatch_execute = 0
       IN  /\ native_outputs' = r
           /\ IF raw
              THEN /\ result' = r
                   /\ pc' = "done"
                   /\ UNCHANGED outputs_literal_map
              ELSE IF r.status = "raised"
              THEN /\ outputs_literal_map' = r
                   /\ result' = r
                   /\ pc' = "done"
              ELSE /\ pc' = "reconcile"
                   /\ UNCHANGED <<result, outputs_literal_map>>
    /\ UNCHANGED <<interface_outputs, body, ctx, entry, args, kwargs, call_ctx,
                   input_literal_map, native_inputs>>
    /\ UNCHANGED regvars

\* the body runs: line 164 (raw) or lines 256-261 (inside dispatch_execute)
Execute ==
    /\ pc = "execute"
    /\ calls' = [calls EXCEPT !.execute = @ + 1]
    /\ LET r == execute(body, interface_outputs, native_inputs)
       IN  /\ native_outputs' = r
           /\ IF calls.dispatch_execute = 0
              THEN /\ result' = r
                   /\ pc' = "done"
                   /\ UNCHANGED outputs_literal_map
              ELSE IF r.status = "raised"
              THEN /\ outputs_literal_map' = r
                   /\ result' = r
                   /\ pc' = "done"
              ELSE /\ pc' = "reconcile"
                   /\ UNCHANGED <<result, outputs_literal_map>>
    /\ UNCHANGED <<interface_outputs, body, ctx, entry, args, kwargs, call_ctx,
                   input_literal_map, native_inputs>>
    /\ UNCHANGED regvars

\* PythonTask.dispatch_execute, lines 263-292: output reconciliation
Reconcile ==
    /\ pc = "reconcile"
    /\ LET r == reconcile(interface_outputs, native_outputs.value)
           out == [status |-> r.status, value |-> r.value]
       IN  /\ calls' = [calls EXCEPT !.to_literal = @ + r.translated]
           /\ outputs_literal_map' = out
           /\ IF entry = "dispatch_execute" \/ r.status = "raised"
              THEN /\ result' = out
                   /\ pc' = "done"
              ELSE /\ pc' = "wrap"
                   /\ UNCHANGED result
    /\ UNCHANGED <<interface_outputs, body, ctx, entry, args, kwargs, call_ctx,
                   input_literal_map, native_inputs, native_outputs>>
    /\ UNCHANGED regvars

\* Task._local_execute, lines 121-134: wrap the literals into Promises
LocalWrap ==
    /\ pc = "wrap"
    /\ result' = wrap_outputs(interface_outputs, outputs_literal_map.value)
    /\ pc' = "done"
    /\ UNCHANGED <<interface_outputs, body, ctx, entry, args, kwargs, call_ctx,
                   input_literal_map, native_inputs, native_outputs,
                   outputs_literal_map, calls>>
    /\ UNCHANGED regvars

\* the outside caller takes the outcome; the frame is gone
Return ==
    /\ pc = "done"
    /\ pc' = "idle"
    /\ entry' = "none"
    /\ args' = 0
    /\ kwargs' = EmptyMap
    /\ call_ctx' = NoContext
    /\ input_literal_map' = EmptyMap
    /\ native_inputs' = EmptyMap
    /\ native_outputs' = Pending
    /\ outputs_literal_map' = Pending
    /\ result' = Pending
    /\ calls' = NoCalls
    /\ UNCHANGED <<interface_outputs, body, ctx>>
    /\ UNCHANGED regvars

Next ==
    \/ \E c \in Contexts : ContextChange(c)
    \/ \E n \in 0..MaxArgs, kw \in KwargsChoices : Call(n, kw)
    \/ LocalExecute
    \/ \E lm \in LiteralMapChoices : DispatchCall(lm)
    \/ DispatchExecute
    \/ Execute
    \/ Reconcile
    \/ LocalWrap
    \/ Return

Spec == Init /\ [][Next]_vars

---------------------------------------------------------------------------
(* Registration: get_registerable_entity, lines 298-302 *)

\* the registration collaborator installs other settings in the context
SettingsChange(s) ==
    /\ s # registration_settings
    /\ registration_settings' = s
    /\ UNCHANGED <<registerable_entity, reg_pc, reg_tk, reg_ret, reg_ord,
                   reg_started, reg_computed>>
    /\ UNCHANGED taskvars

\* a thread enters get_registerable_entity
RegCall(t) ==
    /\ reg_pc[t] = "idle"
    /\ reg_started < MaxRegCalls
    /\ reg_started' = reg_started + 1
    /\ reg_ord' = [reg_ord EXCEPT ![t] = reg_started + 1]
    /\ reg_ret' = [reg_ret EXCEPT ![t] = None]
    /\ reg_tk' = [reg_tk EXCEPT ![t] = None]
    /\ reg_pc' = [reg_pc EXCEPT ![t] = "check"]
    /\ UNCHANGED <<registerable_entity, registration_settings, reg_computed>>
    /\ UNCHANGED taskvars

\* a caller that starts only when no other call is in progress
RegCallSeq(t) ==
    /\ \A u \in Threads : reg_pc[u] = "idle"
    /\ RegCall(t)

\* variant: the cache slot is not consulted
RegCheck_no_cache(t) ==
    /\ reg_pc[t] = "check"
    /\ reg_pc' = [reg_pc EXCEPT ![t] = "compute"]
    /\ UNCHANGED <<registerable_entity, registration_settings, reg_tk, reg_ret,
                   reg_ord, reg_started, reg_computed>>
    /\ UNCHANGED taskvars

\* line 299: the test of the cache slot
RegCheck(t) ==
    /\ reg_pc[t] = "check"
    /\ reg_pc' = [reg_pc EXCEPT ![t] =
                     IF registerable_entity # None THEN "return" ELSE "compute"]
    /\ UNCHANGED <<registerable_entity, registration_settings, reg_tk, reg_ret,
                   reg_ord, reg_started, reg_computed>>
    /\ UNCHANGED taskvars

\* line 301, right-hand side: self.get_task_structure()
RegCompute(t) ==
    /\ reg_pc[t] = "compute"
    /\ reg_tk' = [reg_tk EXCEPT ![t] = get_task_structure(registration_settings)]
    /\ reg_computed' = reg_computed \cup {reg_ord[t]}
    /\ reg_pc' = [reg_pc EXCEPT ![t] = "store"]
    /\ UNCHANGED <<registerable_entity, registration_settings, reg_ret, reg_ord,
                   reg_started>>
    /\ UNCHANGED taskvars

\* line 301, the assignment to self._registerable_entity
RegStore(t) ==
    /\ reg_pc[t] = "store"
    /\ registerable_entity' = reg_tk[t]
    /\ reg_pc' = [reg_pc EXCEPT ![t] = "return"]
    /\ UNCHANGED <<registration_settings, reg_tk, reg_ret, reg_ord, reg_started,
                   reg_computed>>
    /\ UNCHANGED taskvars

\* lines 300 and 302: return self._registerable_entity
RegReturn(t) ==
    /\ reg_pc[t] = "return"
    /\ reg_ret' = [reg_ret EXCEPT ![t] = registerable_entity]
    /\ reg_pc' = [reg_pc EXCEPT ![t] = "idle"]
    /\ UNCHANGED <<registerable_entity, registration_settings, reg_tk, reg_ord,
                   reg_started, reg_computed>>
    /\ UNCHANGED taskvars

InitReg ==
    /\ Init
    /\ Len(interface_outputs) <= 1
    /\ body = [kind |-> "add", len |-> 0]

\* calls one after the other
NextRegSeq ==
    \/ \E s \in RegistrationSettings : SettingsChange(s)
    \/ \E t \in Threads : RegCallSeq(t)
    \/ \E t \in Threads : RegCheck(t)
    \/ \E t \in Threads : RegCompute(t)
    \/ \E t \in Threads : RegStore(t)
    \/ \E t \in Threads : RegReturn(t)

SpecRegSeq == InitReg /\ [][NextRegSeq]_vars

\* calls from several threads at once
NextReg ==
    \/ \E s \in RegistrationSettings : SettingsChange(s)
    \/ \E t \in Threads : RegCall(t)
    \/ \E t \in Threads : RegCheck(t)
    \/ \E t \in Threads : RegCompute(t)
    \/ \E t \in Threads : RegStore(t)
    \/ \E t \in Threads : RegReturn(t)

SpecReg == InitReg /\ [][NextReg]_vars

---------------------------------------------------------------------------
(* Properties *)

KeywordCall == entry = "__call__" /\ args = 0
RawBodyInvoked ==
    \/ pc = "execute" /\ calls.dispatch_execute = 0
    \/ calls.execute >= 1 /\ calls.dispatch_execute = 0
SkippedReturn == pc = "done" /\ calls = NoCalls /\ result = Returned(NoneValue)
LocalPath == calls.local_execute >= 1 \/ SkippedReturn
PathCount ==
    (IF calls.compile >= 1 THEN 1 ELSE 0)
    + (IF LocalPath THEN 1 ELSE 0)
    + (IF RawBodyInvoked THEN 1 ELSE 0)

\* C1: every keyword-only invocation takes exactly one of the three paths,
\* first match wins: compilation (mode 1) calls compile exactly once and
\* neither dispatch_execute nor the body, even if the execution state says
\* LOCAL_WORKFLOW_EXECUTION; otherwise LOCAL_WORKFLOW_EXECUTION takes the
\* local path (skip or _local_execute); otherwise the raw body is invoked.
C1_ExactlyOnePath ==
    KeywordCall =>
        /\ PathCount = 1
        /\ calls.compile <= 1 /\ calls.local_execute <= 1 /\ calls.execute <= 1
        /\ (calls.compile = 1) <=> CompilationOn(call_ctx)
        /\ CompilationOn(call_ctx) =>
              /\ pc = "done"
              /\ calls.dispatch_execute = 0
              /\ calls.execute = 0
              /\ calls.local_execute = 0
        /\ LocalPath <=> (~CompilationOn(call_ctx) /\ LocalWorkflowOn(call_ctx))
        /\ RawBodyInvoked <=>
              (~CompilationOn(call_ctx) /\ ~LocalWorkflowOn(call_ctx))

C1_Witness ==
    /\ KeywordCall
    /\ pc = "done"
    /\ CompilationOn(call_ctx)
    /\ LocalWorkflowOn(call_ctx)
    /\ calls.compile = 1

\* C2: an invocation with positional arguments raises FlyteAssertion in
\* every ambient context; compile, dispatch_execute and the body are never
\* invoked and nothing is returned.
C2_PositionalRejected ==
    (entry = "__call__" /\ args > 0) =>
        /\ pc = "done"
        /\ result = Raised("FlyteAssertion")
        /\ calls = NoCalls
        /\ native_outputs = Pending

C2_Witness ==
    /\ entry = "__call__"
    /\ args > 0
    /\ LocalWorkflowOn(ctx)
    /\ BranchSkipped(ctx)
    /\ CompilationOn(ctx)
    /\ result = Raised("FlyteAssertion")

\* C3 as stated: whenever the branch-eval flag is BRANCH_SKIPPED at
\* invocation time, the invocation returns None at once and neither input
\* translation, dispatch_execute nor the body happens.
C3_SkippedWheneverFlagSet ==
    (KeywordCall /\ BranchSkipped(call_ctx)) =>
        /\ pc = "done"
        /\ result = Returned(NoneValue)
        /\ calls = NoCalls

\* C3 amended: a keyword-only invocation made while compilation mode 1 is
\* not in effect, the execution mode is LOCAL_WORKFLOW_EXECUTION and the
\* branch-eval flag is BRANCH_SKIPPED returns None at once (no VoidPromise,
\* no Promise collection); the body, input translation and dispatch_execute
\* are never invoked.
C3_SkippedBranch ==
    (/\ KeywordCall
     /\ ~CompilationOn(call_ctx)
     /\ LocalWorkflowOn(call_ctx)
     /\ BranchSkipped(call_ctx)) =>
        /\ pc = "done"
        /\ result = Returned(NoneValue)
        /\ calls = NoCalls
        /\ native_outputs = Pending

C3_Witness ==
    /\ KeywordCall
    /\ ~CompilationOn(call_ctx)
    /\ LocalWorkflowOn(call_ctx)
    /\ BranchSkipped(call_ctx)
    /\ pc = "done"
    /\ result = Returned(NoneValue)

\* C4: with no governing context the raw body is called exactly once with
\* exactly the supplied keyword arguments and its outcome is the outcome of
\* the invocation, untranslated; dispatch_execute is not called.
C4_RawExecution ==
    (KeywordCall /\ ~CompilationOn(call_ctx) /\ ~LocalWorkflowOn(call_ctx)) =>
        /\ pc \in {"execute", "done"}
        /\ native_inputs = kwargs
        /\ calls.compile = 0
        /\ calls.local_execute = 0
        /\ calls.translate_inputs_to_literals = 0
        /\ calls.dispatch_execute = 0
        /\ calls.literal_map_to_kwargs = 0
        /\ calls.to_literal = 0
        /\ pc = "execute" => calls.execute = 0 /\ result = Pending
        /\ pc = "done" =>
              /\ calls.execute = 1
              /\ native_outputs = execute(body, interface_outputs, kwargs)
              /\ result = native_outputs

C4_Witness ==
    /\ KeywordCall
    /\ ~CompilationOn(call_ctx)
    /\ ~LocalWorkflowOn(call_ctx)
    /\ pc = "done"
    /\ calls.execute = 1
    /\ result.status = "returned"
    /\ IsTuple(result.value)
    /\ Len(result.value.elems) = 2

\* the native value an argument stands for: a Promise resolves to the
\* native form of the literal it carries
Resolve(kw) ==
    [k \in DOMAIN kw |->
        IF kw[k].kind = "Promise"
        THEN Native(kw[k].val.type, kw[k].val.val)
        ELSE kw[k]]
BodyReached == pc = "execute" \/ calls.execute >= 1
LocalActive(c) == ~CompilationOn(c) /\ LocalWorkflowOn(c) /\ ~BranchSkipped(c)

\* C5 as stated: in every ambient context the body receives the native
\* values the arguments resolve to, whether they were given as native
\* values or as Promises.
C5_SameInEveryContext ==
    (KeywordCall /\ BodyReached) => native_inputs = Resolve(kwargs)

\* C5 amended: under local workflow execution (compilation mode 1 not in
\* effect, mode LOCAL_WORKFLOW_EXECUTION, branch not skipped) invocations
\* that differ only in the native-vs-Promise form of their arguments hand
\* the same literal map to dispatch_execute, pass the same native values to
\* the body and produce the same result.  With no governing context the
\* body receives the arguments as supplied, Promises included.
C5_LocalEquivalence ==
    /\ (KeywordCall /\ LocalActive(call_ctx)) =>
        /\ calls.dispatch_execute = 1 =>
              input_literal_map =
                  [k \in DOMAIN kwargs |-> to_literal(Resolve(kwargs)[k])]
        /\ BodyReached => native_inputs = Resolve(kwargs)
        /\ calls.execute = 1 =>
              native_outputs = execute(body, interface_outputs, Resolve(kwargs))
        /\ (pc = "done" /\ native_outputs.status = "returned") =>
              LET d == reconcile(interface_outputs, native_outputs.value)
              IN  result = IF d.status = "raised"
                           THEN [status |-> d.status, value |-> d.value]
                           ELSE wrap_outputs(interface_outputs, d.value)
    /\ (KeywordCall /\ RawBodyInvoked) => native_inputs = kwargs

C5_Witness ==
    /\ KeywordCall
    /\ LocalActive(call_ctx)
    /\ kwargs["x"].kind = "Promise"
    /\ kwargs["y"].kind = "native"
    /\ pc = "done"
    /\ native_inputs = [x |-> Native("int", 2), y |-> Native("int", 3)]
    /\ result = Returned(Promise("a", Literal("int", 5)))

NumOutputs == Len(interface_outputs)
BodyReturned == native_outputs.status = "returned"
DispatchOver == outputs_literal_map.status # "pending"
ShortCircuit(v) == v.kind \in {"LiteralMap", "DynamicJobSpec"}

\* C6 as stated: with zero declared outputs dispatch_execute yields
\* VoidPromise whatever the body returned, a LiteralMap or DynamicJobSpec
\* included.
C6_AlwaysVoidPromise ==
    (NumOutputs = 0 /\ BodyReturned /\ DispatchOver) =>
        outputs_literal_map = Returned(VoidPromise)

\* C6 amended: with zero declared outputs dispatch_execute yields
\* VoidPromise for every body return value (None, a scalar, a tuple) except
\* one that is already a LiteralMap or a DynamicJobSpec, which is returned
\* verbatim.
C6_VoidPromise ==
    (NumOutputs = 0 /\ BodyReturned /\ DispatchOver) =>
        outputs_literal_map =
            IF ShortCircuit(native_outputs.value)
            THEN Returned(native_outputs.value)
            ELSE Returned(VoidPromise)

C6_Witness ==
    /\ NumOutputs = 0
    /\ BodyReturned
    /\ IsTuple(native_outputs.value)
    /\ Len(native_outputs.value.elems) = 2
    /\ outputs_literal_map = Returned(VoidPromise)

\* the map {name: translation of v}
SingleLiteral(name, v) == LiteralMap([k \in {name} |-> Literal(v.type, v.val)])

\* C7 as stated: with exactly one declared output, whatever dispatch_execute
\* yields is a literal map with the single literal of that output's name,
\* the translation of the whole return value; a tuple of any length raises
\* the tuple AssertionError before any translation.
C7_AlwaysSingleLiteral ==
    (NumOutputs = 1 /\ BodyReturned /\ DispatchOver) =>
        LET v == native_outputs.value
        IN  /\ IsTuple(v) =>
                  /\ outputs_literal_map = Raised("AssertionError_tuple")
                  /\ calls.to_literal = 0
            /\ outputs_literal_map.status = "returned" =>
                  /\ v.kind = "native"
                  /\ outputs_literal_map.value = SingleLiteral(interface_outputs[1], v)

\* C7 amended: with exactly one declared output and a body return value
\* that is not already a LiteralMap or DynamicJobSpec (those are returned
\* verbatim), what dispatch_execute yields is a literal map with the single
\* literal of that output's name, the translation of the whole return
\* value; a tuple of any length (empty and one-element included) raises the
\* tuple AssertionError before any translation and no map is returned.
C7_SingleOutput ==
    (NumOutputs = 1 /\ BodyReturned /\ DispatchOver) =>
        LET v == native_outputs.value
        IN  /\ ShortCircuit(v) => outputs_literal_map = Returned(v)
            /\ IsTuple(v) =>
                  /\ outputs_literal_map = Raised("AssertionError_tuple")
                  /\ calls.to_literal = 0
            /\ (~ShortCircuit(v) /\ outputs_literal_map.status = "returned") =>
                  outputs_literal_map.value = SingleLiteral(interface_outputs[1], v)
            /\ (~ShortCircuit(v) /\ ~IsTuple(v) /\ v.type = TypeOf(interface_outputs[1])) =>
                  outputs_literal_map.status = "returned"

C7_Witness ==
    /\ NumOutputs = 1
    /\ BodyReturned
    /\ IsTuple(native_outputs.value)
    /\ Len(native_outputs.value.elems) = 1
    /\ outputs_literal_map = Raised("AssertionError_tuple")

C9_KeySet ==
    (/\ BodyReturned
     /\ IsTuple(native_outputs.value)
     /\ outputs_literal_map.status = "returned"
     /\ outputs_literal_map.value.kind = "LiteralMap") =>
        DOMAIN outputs_literal_map.value.literals = Range(interface_outputs)

\* C10: under local execution with N > 1 declared outputs, a returned
\* sequence whose length differs from N always ends in the length-mismatch
\* AssertionError of _local_execute, and in no other error.
C10_LengthMismatch ==
    (/\ KeywordCall
     /\ calls.local_execute = 1
     /\ pc = "done"
     /\ NumOutputs > 1
     /\ BodyReturned
     /\ IsTuple(native_outputs.value)
     /\ Len(native_outputs.value.elems) # NumOutputs) =>
        result = Raised("AssertionError_length")

\* the shape local execution returns for n declared outputs
PromiseShape(v, n) ==
    IF n = 1 THEN v.kind = "Promise"
    ELSE v.kind = "Promises" /\ Len(v.elems) = n

\* C11: under local workflow execution (branch active) with N declared
\* outputs, whatever dispatch_execute returned, the invocation returns a
\* single Promise (N = 1) or N Promises (N > 1), or else ends in the
\* length-mismatch AssertionError.
C11_ShapeOrLengthError ==
    (/\ KeywordCall
     /\ LocalActive(call_ctx)
     /\ pc = "done"
     /\ NumOutputs >= 1
     /\ outputs_literal_map.status = "returned") =>
        \/ result = Raised("AssertionError_length")
        \/ result.status = "returned" /\ PromiseShape(result.value, NumOutputs)

\* C13: the body is invoked at most once; an exception it raises is the
\* outcome of dispatch_execute and of the outside call, unchanged: no retry,
\* no suppression, no output translation, nothing returned.
C13_BodyFailure ==
    /\ calls.execute <= 1
    /\ native_outputs.status = "raised" =>
          /\ pc = "done"
          /\ calls.execute = 1
          /\ calls.to_literal = 0
          /\ result = native_outputs
          /\ calls.dispatch_execute = 1 => outputs_literal_map = native_outputs

C13_Witness ==
    /\ KeywordCall
    /\ calls.local_execute = 1
    /\ calls.dispatch_execute = 1
    /\ native_outputs = Raised("BodyError")
    /\ result = Raised("BodyError")

\* C14: a body return value already in LiteralMap or DynamicJobSpec form is
\* what dispatch_execute returns, verbatim, for any number of declared
\* outputs, with no reconciliation and no Value Translator call.
C14_ShortCircuit ==
    (/\ calls.dispatch_execute = 1
     /\ BodyReturned
     /\ ShortCircuit(native_outputs.value)
     /\ pc \in {"wrap", "done"}) =>
        /\ outputs_literal_map = Returned(native_outputs.value)
        /\ calls.to_literal = 0

C14_Witness ==
    /\ calls.dispatch_execute = 1
    /\ NumOutputs = 2
    /\ BodyReturned
    /\ native_outputs.value.kind = "LiteralMap"
    /\ DOMAIN native_outputs.value.literals # Range(interface_outputs)
    /\ outputs_literal_map = Returned(native_outputs.value)

\* C15: under local execution, when dispatch_execute returned a literal map
\* the i-th returned Promise has the i-th declared output name and the
\* literal the map holds under that name; when it returned VoidPromise, that
\* sentinel is returned unchanged.
C15_PromiseBinding ==
    (/\ KeywordCall
     /\ LocalActive(call_ctx)
     /\ pc = "done"
     /\ outputs_literal_map.status = "returned") =>
        /\ outputs_literal_map.value.kind = "VoidPromise" =>
              result = Returned(VoidPromise)
        /\ outputs_literal_map.value.kind = "LiteralMap" =>
              LET lits == outputs_literal_map.value.literals
              IN  /\ DOMAIN lits = Range(interface_outputs) =>
                        result.status = "returned"
                  /\ result.status = "returned" =>
                        LET ps == IF NumOutputs = 1 THEN <<result.value>>
                                  ELSE result.value.elems
                        IN  /\ Len(ps) = NumOutputs
                            /\ \A i \in 1..NumOutputs :
                                  ps[i] = Promise(interface_outputs[i],
                                                  lits[interface_outputs[i]])

C15_Witness ==
    /\ KeywordCall
    /\ LocalActive(call_ctx)
    /\ pc = "done"
    /\ NumOutputs = 2
    /\ Rank(interface_outputs[1]) > Rank(interface_outputs[2])
    /\ result.status = "returned"
    /\ result.value.kind = "Promises"
    /\ result.value.elems[1].var = interface_outputs[1]

\* the path the context read at entry selects
PathKept ==
    /\ CompilationOn(call_ctx) => pc = "done" /\ calls.compile = 1
    /\ (~CompilationOn(call_ctx) /\ LocalWorkflowOn(call_ctx)
            /\ BranchSkipped(call_ctx)) =>
          pc = "done" /\ calls = NoCalls
    /\ LocalActive(call_ctx) =>
          /\ calls.local_execute = 1
          /\ calls.compile = 0
          /\ calls.execute = 1 => calls.dispatch_execute = 1
    /\ (~CompilationOn(call_ctx) /\ ~LocalWorkflowOn(call_ctx)) =>
          /\ pc \in {"execute", "done"}
          /\ calls.compile = 0
          /\ calls.local_execute = 0
          /\ calls.dispatch_execute = 0
InvocationStep == pc' # pc \/ calls' # calls \/ result' # result

\* C17: a keyword-only invocation takes its context at entry and never
\* writes the ambient context: every step of __call__, _local_execute and
\* dispatch_execute leaves it unchanged, the context taken at entry stays
\* the one of the invocation, and the path it selected is kept when the
\* context changes while the body runs.
C17_ContextReadOnly ==
    /\ [][InvocationStep => ctx' = ctx]_vars
    /\ [][(pc = "idle" /\ pc' # "idle" /\ entry' = "__call__" /\ args' = 0) =>
            call_ctx' = ctx]_vars
    /\ [][(pc # "idle" /\ pc' # "idle") => call_ctx' = call_ctx]_vars
    /\ [][(entry' = "__call__" /\ args' = 0) => PathKept']_vars

C17_Witness ==
    /\ KeywordCall
    /\ pc = "done"
    /\ ~CompilationOn(call_ctx)
    /\ ~LocalWorkflowOn(call_ctx)
    /\ LocalWorkflowOn(ctx)
    /\ calls.execute = 1
    /\ calls.dispatch_execute = 0

\* C18: in dispatch_execute the body is invoked only after every input
\* literal was translated to its native value, key for key; output
\* translation comes after the body; if the input translation fails the
\* body is never invoked and the translation error is the outcome.
C18_TranslateThenExecute ==
    /\ (calls.dispatch_execute = 1 /\ BodyReached) =>
          /\ calls.literal_map_to_kwargs = 1
          /\ DOMAIN native_inputs = DOMAIN input_literal_map
          /\ \A k \in DOMAIN input_literal_map :
                /\ input_literal_map[k].type = TypeOf(k)
                /\ native_inputs[k] =
                      Native(input_literal_map[k].type, input_literal_map[k].val)
    /\ (pc \in {"reconcile", "wrap"} \/ calls.to_literal > 0) => calls.execute = 1
    /\ (/\ calls.dispatch_execute = 1
        /\ \E k \in DOMAIN input_literal_map :
              input_literal_map[k].type # TypeOf(k)) =>
          /\ pc = "done"
          /\ calls.execute = 0
          /\ native_outputs = Pending
          /\ result = Raised("TranslationError")

C18_Witness ==
    /\ entry = "dispatch_execute"
    /\ calls.dispatch_execute = 1
    /\ input_literal_map["x"].type = "str"
    /\ calls.execute = 0
    /\ result = Raised("TranslationError")

\* C19: with N > 1 declared outputs and a returned sequence of length N in
\* which an element is a tuple, dispatch_execute raises the tuple
\* AssertionError at that output and returns no map, after the outputs
\* declared before it have been translated.
C19_TupleElement ==
    (/\ NumOutputs > 1
     /\ BodyReturned
     /\ DispatchOver
     /\ IsTuple(native_outputs.value)
     /\ Len(native_outputs.value.elems) = NumOutputs
     /\ \E i \in 1..NumOutputs : IsTuple(native_outputs.value.elems[i])) =>
        LET elems == native_outputs.value.elems
            tuples == {i \in 1..NumOutputs : IsTuple(elems[i])}
            first == CHOOSE i \in tuples : \A j \in tuples : i <= j
        IN  (\A j \in 1..(first - 1) :
                CanTranslate(elems[j], TypeOf(interface_outputs[j]))) =>
                /\ outputs_literal_map = Raised("AssertionError_tuple")
                /\ calls.to_literal = first - 1

C19_Witness ==
    /\ NumOutputs = 3
    /\ BodyReturned
    /\ IsTuple(native_outputs.value)
    /\ Len(native_outputs.value.elems) = 3
    /\ IsTuple(native_outputs.value.elems[3])
    /\ calls.to_literal = 2
    /\ outputs_literal_map = Raised("AssertionError_tuple")

\* the calls that have returned
RegReturned == {t \in Threads : reg_ret[t] # None}

RegMemoized ==
    /\ reg_computed \subseteq {1}
    /\ (registerable_entity # None \/ RegReturned # {}) => reg_computed = {1}
    /\ \A t \in RegReturned : reg_ret[t] = registerable_entity

\* C12: over calls of get_registerable_entity made one after the other,
\* get_task_structure runs exactly once, in the first call; every call
\* returns the same structure; the cache slot, once set, never changes,
\* also when the registration settings change between calls.
C12_Memoization ==
    /\ [][RegMemoized']_vars
    /\ [][registerable_entity # None =>
            registerable_entity' = registerable_entity]_vars

C12_Witness ==
    /\ reg_started = 3
    /\ \A t \in Threads : reg_pc[t] = "idle"
    /\ registerable_entity # None
    /\ registerable_entity.version # registration_settings.version
    /\ \E t \in Threads : reg_ord[t] = 3 /\ reg_ret[t] = registerable_entity

\* C16: under every interleaving of concurrent callers,
\* get_task_structure runs at most once and all callers receive the same
\* structure.
C16_ComputedOnce ==
    /\ Cardinality(reg_computed) <= 1
    /\ \A t, u \in RegReturned : reg_ret[t] = reg_ret[u]

====
